---- MODULE Spec2Model ----
(***************************************************************************)
(* Music Quest: the quest matching predicate, the listen-event handler of  *)
(* the server, the batched quest write and the developer utilities of      *)
(* src/public/app.js, as a state machine.                                  *)
(*                                                                         *)
(* An optional JavaScript value (a field that may be undefined) is a set:  *)
(* {} is undefined, {v} is the value v.                                    *)
(***************************************************************************)
EXTENDS Integers, Sequences, FiniteSets, TLC

VARIABLES
  quests,            \* let quests = []            (the resident quest list)
  disk,              \* data/quests.json           (questsPath)
  questWritePending, \* let questWritePending
  writeJob,          \* where the callback chain of scheduleQuestWrite stands
  writeData,         \* the string JSON.stringify(quests) handed to fs.writeFile
  listenRate,        \* const listenRate = new Map()
  now,               \* Date.now(), in units of windowMs
  response,          \* status code of the last HTTP response
  mRecording,        \* argument `recording` of recordingMatchesQuestParams
  mParams,           \* argument `questParams` of recordingMatchesQuestParams
  mResult,           \* its return value, {} before the call
  activeQuests,      \* let activeQuests = []     (the client's copy of /quests)
  cSong,             \* argument `song` of a client function
  cResult,           \* what the client function returned, {} before the call
  passed,            \* per identity, the number of requests isRateLimited let
                     \* pass at each of the last windowMs + 1 clock values
  listenPos,         \* index of the quest the forEach of /listen is at, 0
                     \* when no listen handler is running
  listenRec,         \* the recording of the running listen handler
  listenChanged,     \* whether the running listen handler changed a quest
  navigationHistory,     \* let navigationHistory = [{ type: "home" }]
  developerModeEnabled,  \* let developerModeEnabled
  settingsModalOpen,     \* whether a .modal-overlay of showSettingsModal
                         \* is in the document
  dataFiles,         \* data/artists.json, songs.json, albums.json and
                     \* platforms.json
  resident,          \* let artists, songs, albums, platforms
  index              \* artistsMap, songsMap, albumsMap, platformsByEntity
                     \* and lastPlatformsLength

vars == <<quests, disk, questWritePending, writeJob, writeData, listenRate,
          now, response, mRecording, mParams, mResult, activeQuests, cSong,
          cResult, passed, listenPos, listenRec, listenChanged,
          navigationHistory, developerModeEnabled, settingsModalOpen,
          dataFiles, resident, index>>

serverVars == <<quests, disk, questWritePending, writeJob, writeData,
                listenRate, now, response>>
matchVars  == <<mRecording, mParams, mResult>>
clientVars == <<activeQuests, cSong, cResult>>
loopVars   == <<listenPos, listenRec, listenChanged>>
navVars    == <<navigationHistory, developerModeEnabled, settingsModalOpen>>
indexVars  == <<dataFiles, resident, index>>
\* what a handler of the server that runs to completion leaves alone
otherVars  == <<matchVars, clientVars, passed, loopVars, navVars, indexVars>>

---------------------------------------------------------------------------
(* Optional values                                                         *)

None == {}
Some(v) == {v}
IsDefined(o) == o # {}
Get(o) == CHOOSE v \in o : TRUE

---------------------------------------------------------------------------
(* Bounds of the model                                                     *)

\* the clock stops advancing here
MaxNow == 3
\* quota of listen events per window; the default argument in the source is
\* 60, scaled down so that the quota is reached within the model
limit == 2

\* length of the rate-limit window; the clock counts in units of one window
\* (60_000 ms)
windowMs == 1

---------------------------------------------------------------------------
(* Reference data                                                          *)

ArtistIds == {"art_1", "art_2"}
Years == {1985, 1990, 1995, 1999, 2005}
Users == {"uid_1"}

\* songs.json: the catalog behind songsMap
songs ==
  << [song_id |-> "rec_1", artist_ids |-> Some({"art_1"}), artistIds |-> None,
      year |-> Some(1995), genre_ids |-> {"gen_1"}],
     [song_id |-> "rec_2", artist_ids |-> Some({"art_1"}), artistIds |-> None,
      year |-> Some(2005), genre_ids |-> {"gen_2"}],
     [song_id |-> "rec_3", artist_ids |-> Some({"art_2"}), artistIds |-> None,
      year |-> None, genre_ids |-> {}] >>

SongIds == {songs[i].song_id : i \in DOMAIN songs}

\* songsMap.get(id): {} when the id is not in the catalog
songsMap(id) == {songs[i] : i \in {j \in DOMAIN songs : songs[j].song_id = id}}

\* recording ids a request may carry: the catalog's and one unknown id
RequestIds == SongIds \cup {"rec_404"}

---------------------------------------------------------------------------
(* Quest matching predicate                                                *)

\* JavaScript truthiness of an optional string: undefined and "" are falsy
Truthy(o) == IsDefined(o) /\ Get(o) # ""

\* a < b on optional numbers: a comparison with undefined (NaN) is false
JSLess(a, b) == \E x \in a : \E y \in b : x < y

\* recording.artist_ids || recording.artistIds || []   (an array is truthy)
RecArtistIds(recording) ==
  IF IsDefined(recording.artist_ids) THEN Get(recording.artist_ids)
  ELSE IF IsDefined(recording.artistIds) THEN Get(recording.artistIds)
  ELSE {}

\* the year window tested with <= and >=: a year on a bound is rejected
recordingMatchesQuestParams_StrictWindow(recording, questParams) ==
  IF ~IsDefined(questParams) THEN TRUE
  ELSE LET p == Get(questParams)
           recYear == recording.year
       IN  IF Truthy(p.artistId)
              /\ Get(p.artistId) \notin RecArtistIds(recording)
             THEN FALSE
           ELSE IF IsDefined(p.startYear) /\ ~JSLess(p.startYear, recYear)
             THEN FALSE
           ELSE IF IsDefined(p.endYear) /\ ~JSLess(recYear, p.endYear)
             THEN FALSE
           ELSE TRUE

\* the artist test left out
recordingMatchesQuestParams_NoArtist(recording, questParams) ==
  IF ~IsDefined(questParams) THEN TRUE
  ELSE LET p == Get(questParams)
           recYear == recording.year
       IN  IF IsDefined(p.startYear) /\ JSLess(recYear, p.startYear)
             THEN FALSE
           ELSE IF IsDefined(p.endYear) /\ JSLess(p.endYear, recYear)
             THEN FALSE
           ELSE TRUE

\* a genre test added: `questParams.genreId && !genre_ids.includes(...)`
recordingMatchesQuestParams_Genre(recording, questParams) ==
  IF ~IsDefined(questParams) THEN TRUE
  ELSE LET p == Get(questParams)
           recYear == recording.year
       IN  IF Truthy(p.artistId)
              /\ Get(p.artistId) \notin RecArtistIds(recording)
             THEN FALSE
           ELSE IF Truthy(p.genreId)
              /\ Get(p.genreId) \notin recording.genre_ids
             THEN FALSE
           ELSE IF IsDefined(p.startYear) /\ JSLess(recYear, p.startYear)
             THEN FALSE
           ELSE IF IsDefined(p.endYear) /\ JSLess(p.endYear, recYear)
             THEN FALSE
           ELSE TRUE

\* `if (!questParams) return false`
recordingMatchesQuestParams_AbsentFails(recording, questParams) ==
  IF ~IsDefined(questParams) THEN FALSE
  ELSE LET p == Get(questParams)
           recYear == recording.year
       IN  IF Truthy(p.artistId)
              /\ Get(p.artistId) \notin RecArtistIds(recording)
             THEN FALSE
           ELSE IF IsDefined(p.startYear) /\ JSLess(recYear, p.startYear)
             THEN FALSE
           ELSE IF IsDefined(p.endYear) /\ JSLess(p.endYear, recYear)
             THEN FALSE
           ELSE TRUE

recordingMatchesQuestParams(recording, questParams) ==
  IF ~IsDefined(questParams) THEN TRUE
  ELSE LET p == Get(questParams)
           recArtistIds == RecArtistIds(recording)
           recYear == recording.year
       IN  IF Truthy(p.artistId) /\ Get(p.artistId) \notin recArtistIds
             THEN FALSE
           ELSE IF IsDefined(p.startYear) /\ JSLess(recYear, p.startYear)
             THEN FALSE
           ELSE IF IsDefined(p.endYear) /\ JSLess(p.endYear, recYear)
             THEN FALSE
           ELSE TRUE

\* `|| 0` in place of `|| 1`
RequiredCount_DefaultZero(params) ==
  IF IsDefined(params) /\ IsDefined(Get(params).requiredCount)
    THEN Get(Get(params).requiredCount)
    ELSE 0

\* (quest.params && quest.params.requiredCount) || 1
RequiredCount(params) ==
  IF IsDefined(params) /\ IsDefined(Get(params).requiredCount)
     /\ Get(Get(params).requiredCount) # 0
    THEN Get(Get(params).requiredCount)
    ELSE 1

---------------------------------------------------------------------------
(* Quest progress engine (logic/questEngine, after section 4.2 of the      *)
(* specification; the matching predicate and the required count are the    *)
(* ones above)                                                             *)

InitialState ==
  [status |-> "active", matchedRecordingIds |-> <<>>,
   matchedRecordingIdsSet |-> {}]

\* the engine with one of its three guards left out
applyListenEvent_Guards(quest, recording, checkStatus, checkDup, checkMatch) ==
  IF checkStatus /\ quest.state.status # "active" THEN quest
  ELSE IF checkDup /\ recording.song_id \in quest.state.matchedRecordingIdsSet
    THEN quest
  ELSE IF checkMatch /\ ~recordingMatchesQuestParams(recording, quest.params)
    THEN quest
  ELSE LET ids == Append(quest.state.matchedRecordingIds, recording.song_id)
       IN  [quest EXCEPT !.state =
             [status |-> IF Len(ids) = RequiredCount(quest.params)
                           THEN "completed" ELSE "active",
              matchedRecordingIds |-> ids,
              matchedRecordingIdsSet |->
                quest.state.matchedRecordingIdsSet \cup {recording.song_id}]]

applyListenEvent_NoStatusCheck(quest, recording) ==
  applyListenEvent_Guards(quest, recording, FALSE, TRUE, TRUE)

applyListenEvent_NoDuplicateCheck(quest, recording) ==
  applyListenEvent_Guards(quest, recording, TRUE, FALSE, TRUE)

applyListenEvent_NoMatchCheck(quest, recording) ==
  applyListenEvent_Guards(quest, recording, TRUE, TRUE, FALSE)

applyListenEvent(quest, recording) ==
  IF quest.state.status # "active" THEN quest
  ELSE IF recording.song_id \in quest.state.matchedRecordingIdsSet THEN quest
  ELSE IF ~recordingMatchesQuestParams(recording, quest.params) THEN quest
  ELSE LET ids == Append(quest.state.matchedRecordingIds, recording.song_id)
       IN  [quest EXCEPT !.state =
             [status |-> IF Len(ids) = RequiredCount(quest.params)
                           THEN "completed" ELSE "active",
              matchedRecordingIds |-> ids,
              matchedRecordingIdsSet |->
                quest.state.matchedRecordingIdsSet \cup {recording.song_id}]]

\* a quest without params or without state: the engine surfaces an error
\* for it (section 4.2, failure semantics), modelled as a thrown exception
Malformed(quest) ==
  \/ "params" \notin DOMAIN quest
  \/ ~IsDefined(quest.params)
  \/ "state" \notin DOMAIN quest

\* index of the first quest the engine throws on, 0 when there is none
FirstMalformed(qs) ==
  LET bad == {i \in DOMAIN qs : Malformed(qs[i])}
  IN  IF bad = {} THEN 0 ELSE CHOOSE i \in bad : \A j \in bad : i <= j

\* quests.forEach(quest => { applyListenEvent(quest, recording); }): the
\* quests are updated in place, in order, and an exception ends the loop
ApplyToAll(qs, recording) ==
  LET stop == FirstMalformed(qs)
  IN  [i \in DOMAIN qs |-> IF stop = 0 \/ i < stop
                             THEN applyListenEvent(qs[i], recording)
                             ELSE qs[i]]

---------------------------------------------------------------------------
(* Seed data: quests.json as shipped (every quest active, no progress)     *)

\* quest.params; genreId, albumId, startTime and endTime are the fields the
\* quest titles read and the matching predicate does not
Params(artistId, startYear, endYear, requiredCount) ==
  Some([artistId |-> artistId, startYear |-> startYear, endYear |-> endYear,
        requiredCount |-> requiredCount, genreId |-> None, albumId |-> None,
        startTime |-> None, endTime |-> None])

\* the params with the four other fields set
WithExtras(params, genreId, albumId, startTime, endTime) ==
  Some([Get(params) EXCEPT !.genreId = genreId, !.albumId = albumId,
                           !.startTime = startTime, !.endTime = endTime])

SongReward(id) == Some([type |-> "song", entityId |-> id])

questsJson ==
  << [id |-> "quest_1", templateId |-> "tpl_listen_count",
      params |-> Params(Some("art_1"), None, None, Some(2)),
      reward |-> SongReward("rec_3"), state |-> InitialState],
     [id |-> "quest_2", templateId |-> "tpl_listen_by_year",
      params |-> Params(None, Some(1990), Some(1999), None),
      reward |-> None, state |-> InitialState],
     [id |-> "quest_3", templateId |-> "tpl_listen_by_genre",
      params |-> WithExtras(Params(None, None, None, Some(2)),
                            Some("gen_1"), None, None, None),
      reward |-> SongReward("rec_2"), state |-> InitialState] >>

---------------------------------------------------------------------------
(* Durable storage                                                         *)

\* JSON.stringify(quests, null, 2): arrays, plain objects, strings and
\* numbers are written as they are; an undefined field is left out
JSONStringify(qs) == [ok |-> TRUE, data |-> qs]

\* no string is held by a write
NoData == [ok |-> FALSE, data |-> <<>>]

\* the file between the open that truncates it and the write of the data
Truncated == [ok |-> FALSE, data |-> <<>>]

\* loadDataFile(questsPath, "quests"): the parsed list, or [] when
\* JSON.parse throws
loadDataFile(file) == IF file.ok THEN file.data ELSE <<>>

---------------------------------------------------------------------------
(* Client navigation                                                       *)

\* the most pages the model stacks on the history
MaxHistory == 3

\* what a page entry of the history carries in `data`
NavData == {"d_1", "d_2"}
\* pages that show one artist, album, song, quest or genre
ItemPages == {"artist", "album", "song", "quest", "genre"}
\* showArtistsPage, showAlbumsPage, showGenresPage
ListPages == {"artists-page", "albums-page", "genres-page"}

\* navigationHistory.pop()
Pop(h) == SubSeq(h, 1, Len(h) - 1)
Last(h) == h[Len(h)]

\* showDeveloperTab(): the history it leaves behind; with developer mode off
\* it returns after the alert
showDeveloperTab(h, enabled) ==
  IF ~enabled THEN h ELSE <<[type |-> "developer"]>>

\* goBack(): the history it leaves behind
goBack(h, enabled) ==
  IF Len(h) <= 1 THEN h
  ELSE LET h1 == Pop(h)
           previous == Last(h1)
       IN  IF previous.type \in ItemPages
             THEN Append(Pop(h1), [type |-> previous.type,
                                   data |-> previous.data])
           ELSE IF previous.type \in ListPages
             THEN Append(Pop(h1), [type |-> previous.type])
           ELSE IF previous.type = "developer"
             THEN showDeveloperTab(Pop(h1), enabled)
           ELSE <<[type |-> previous.type]>>

\* the client after the script has loaded, developer mode not switched off
NavIdle ==
  /\ navigationHistory = <<[type |-> "home"]>>
  /\ developerModeEnabled = TRUE
  /\ settingsModalOpen = FALSE

---------------------------------------------------------------------------
(* Catalog indexes                                                         *)

\* new Map()
EmptyMap == [k \in {} |-> k]

Max(S) == CHOOSE x \in S : \A y \in S : y <= x

\* list.forEach(e => key(e) && map.set(key(e), e)), keys[i] being the key of
\* list[i]: a later entry replaces an earlier one of the same key
SetEach(map, keys, list) ==
  LET hit(k) == {i \in DOMAIN list : keys[i] = Some(k)}
      ks == {Get(keys[i]) : i \in {j \in DOMAIN list : Truthy(keys[j])}}
  IN  [k \in DOMAIN map \cup ks |->
         IF hit(k) # {} THEN list[Max(hit(k))] ELSE map[k]]

\* `${p.entityType}:${p.entityId}`
EntityKey(p) == <<p.entityType, p.entityId>>

\* platforms.forEach(p => platformsByEntity.get(key).push(p)) on a cleared
\* map
GroupByEntity(list) ==
  [k \in {EntityKey(list[i]) : i \in DOMAIN list} |->
     SelectSeq(list, LAMBDA p : EntityKey(p) = k)]

\* rebuildIndexes(): artistsMap and songsMap are cleared, albumsMap is not,
\* and the platform index is rebuilt when the number of links changed
rebuildIndexes(ix, lists) ==
  LET rebuild == ix.lastPlatformsLength # Len(lists.platforms)
  IN  [artistsMap |->
         SetEach(EmptyMap,
                 [i \in DOMAIN lists.artists |-> lists.artists[i].id],
                 lists.artists),
       songsMap |->
         SetEach(EmptyMap,
                 [i \in DOMAIN lists.songs |-> Some(lists.songs[i].song_id)],
                 lists.songs),
       albumsMap |->
         SetEach(ix.albumsMap,
                 [i \in DOMAIN lists.albums |-> lists.albums[i].id],
                 lists.albums),
       platformsByEntity |->
         IF rebuild THEN GroupByEntity(lists.platforms)
         ELSE ix.platformsByEntity,
       lastPlatformsLength |->
         IF rebuild THEN Len(lists.platforms) ELSE ix.lastPlatformsLength]

\* the four loadDataFile calls of reloadDataFromDisk() behind the indexes
LoadLists(files) ==
  [artists |-> loadDataFile(files.artists),
   songs |-> loadDataFile(files.songs),
   albums |-> loadDataFile(files.albums),
   platforms |-> loadDataFile(files.platforms)]

\* a data file holding the list
File(list) == [ok |-> TRUE, data |-> list]

\* artists.json
artistsJson ==
  << [id |-> Some("art_1"), name |-> "Artist One"],
     [id |-> Some("art_2"), name |-> "Artist Two"] >>

\* albums.json
albumsJson ==
  << [id |-> Some("alb_1"), title |-> "Album One"],
     [id |-> Some("alb_2"), title |-> "Album Two"] >>

\* platforms.json
platformsJson ==
  << [entityType |-> "song", entityId |-> "rec_1", platform |-> "spotify"],
     [entityType |-> "song", entityId |-> "rec_1", platform |-> "youtube"] >>

\* the lists an edit of a data file may leave in it
FileVersions ==
  [artists |-> {artistsJson,
                <<artistsJson[2], [id |-> None, name |-> "Unnamed"]>>},
   songs |-> {songs, SubSeq(songs, 1, 2)},
   albums |-> {albumsJson, <<albumsJson[1]>>,
               <<[id |-> Some("alb_2"), title |-> "Album Two (Deluxe)"]>>},
   platforms |-> {platformsJson, <<platformsJson[1]>>, <<>>,
                  << [entityType |-> "album", entityId |-> "alb_1",
                      platform |-> "spotify"],
                     platformsJson[2] >>}]

\* the let declarations of the lists and the maps, before the initial load
NoLists == [artists |-> <<>>, songs |-> <<>>, albums |-> <<>>,
            platforms |-> <<>>]
NoIndex == [artistsMap |-> EmptyMap, songsMap |-> EmptyMap,
            albumsMap |-> EmptyMap, platformsByEntity |-> EmptyMap,
            lastPlatformsLength |-> -1]

\* the data files as shipped, and the lists and indexes after the initial
\* load
IndexLoaded ==
  /\ dataFiles = [artists |-> File(artistsJson), songs |-> File(songs),
                  albums |-> File(albumsJson),
                  platforms |-> File(platformsJson)]
  /\ resident = LoadLists(dataFiles)
  /\ index = rebuildIndexes(NoIndex, resident)

---------------------------------------------------------------------------
(* Rate limiter                                                            *)

NoEntry == [ts |-> 0, count |-> 0]

\* the quota test with > in place of >=
isRateLimited_OffByOne(key) ==
  LET entry == listenRate[key]
  IN  IF entry.count = 0 \/ (now - entry.ts) > windowMs THEN FALSE
      ELSE entry.count > limit

\* the value isRateLimited returns for `key`
isRateLimited(key) ==
  LET entry == listenRate[key]
  IN  IF entry.count = 0 \/ (now - entry.ts) > windowMs THEN FALSE
      ELSE entry.count >= limit

\* a limiter that restarts the window of a request it rejects
RateAfter_RestartOnReject(key) ==
  LET entry == listenRate[key]
  IN  IF entry.count = 0 \/ (now - entry.ts) > windowMs
        THEN [listenRate EXCEPT ![key] = [ts |-> now, count |-> 1]]
      ELSE IF entry.count >= limit
        THEN [listenRate EXCEPT ![key].ts = now]
      ELSE [listenRate EXCEPT ![key].count = entry.count + 1]

\* the map isRateLimited leaves behind
RateAfter(key) ==
  LET entry == listenRate[key]
  IN  IF entry.count = 0 \/ (now - entry.ts) > windowMs
        THEN [listenRate EXCEPT ![key] = [ts |-> now, count |-> 1]]
      ELSE IF entry.count >= limit THEN listenRate
      ELSE [listenRate EXCEPT ![key].count = entry.count + 1]

---------------------------------------------------------------------------
(* Operations of the server                                                *)

\* scheduleQuestWrite(), up to the setImmediate call
scheduleQuestWrite ==
  IF questWritePending
    THEN UNCHANGED <<questWritePending, writeJob>>
    ELSE questWritePending' = TRUE /\ writeJob' = "immediate"

\* the handler with the result of the rate check ignored, or with the
\* write scheduled before the recording is looked up
ListenHandler_Flags(userId, recordingId, checkRate, writeFirst) ==
  /\ listenRate' = RateAfter(userId)
  /\ IF checkRate /\ isRateLimited(userId)
       THEN /\ response' = 429
            /\ UNCHANGED <<quests, questWritePending, writeJob>>
     ELSE IF ~IsDefined(songsMap(recordingId))
       THEN /\ response' = 404
            /\ UNCHANGED quests
            /\ IF writeFirst THEN scheduleQuestWrite
                ELSE UNCHANGED <<questWritePending, writeJob>>
     ELSE /\ quests' = ApplyToAll(quests, Get(songsMap(recordingId)))
          /\ IF FirstMalformed(quests) # 0 /\ ~writeFirst
               THEN /\ response' = 500
                    /\ UNCHANGED <<questWritePending, writeJob>>
               ELSE /\ scheduleQuestWrite
                    /\ response' = IF FirstMalformed(quests) # 0
                                     THEN 500 ELSE 200
  /\ UNCHANGED <<disk, writeData, now>>

Listen_NoRateCheck(userId, recordingId) ==
  ListenHandler_Flags(userId, recordingId, FALSE, FALSE)
    /\ UNCHANGED otherVars

Listen_WriteFirst(userId, recordingId) ==
  ListenHandler_Flags(userId, recordingId, TRUE, TRUE)
    /\ UNCHANGED otherVars

\* the handler of POST /listen/:recordingId, after verifyToken: an exception
\* of the forEach leaves the handler and the error middleware answers 500
ListenHandler(userId, recordingId) ==
  /\ listenRate' = RateAfter(userId)
  /\ IF isRateLimited(userId)
       THEN /\ response' = 429
            /\ UNCHANGED <<quests, questWritePending, writeJob>>
     ELSE IF ~IsDefined(songsMap(recordingId))
       THEN /\ response' = 404
            /\ UNCHANGED <<quests, questWritePending, writeJob>>
     ELSE /\ quests' = ApplyToAll(quests, Get(songsMap(recordingId)))
          /\ IF FirstMalformed(quests) # 0
               THEN /\ response' = 500
                    /\ UNCHANGED <<questWritePending, writeJob>>
               ELSE /\ scheduleQuestWrite
                    /\ response' = 200
  /\ UNCHANGED <<disk, writeData, now>>

\* POST /listen/:recordingId with a verified token
Listen(userId, recordingId) ==
  ListenHandler(userId, recordingId) /\ UNCHANGED otherVars

\* a rejection by verifyToken that has counted the request
ListenUnauthenticated_Counted ==
  /\ response' = 401
  /\ listenRate' = RateAfter(CHOOSE u \in Users : TRUE)
  /\ UNCHANGED <<quests, disk, questWritePending, writeJob, writeData, now>>
  /\ UNCHANGED otherVars

\* POST /listen/:recordingId rejected by verifyToken
ListenUnauthenticated ==
  /\ response' = 401
  /\ UNCHANGED <<quests, disk, questWritePending, writeJob, writeData,
                 listenRate, now>>
  /\ UNCHANGED otherVars

\* the setImmediate callback: JSON.stringify(quests) and the call of
\* fs.writeFile
WriteStart ==
  /\ writeJob = "immediate"
  /\ writeData' = JSONStringify(quests)
  /\ writeJob' = "open"
  /\ UNCHANGED <<quests, disk, questWritePending, listenRate, now, response>>
  /\ UNCHANGED otherVars

\* fs.writeFile opens the file with flag 'w', which truncates it
WriteOpen ==
  /\ writeJob = "open"
  /\ disk' = Truncated
  /\ writeJob' = "write"
  /\ UNCHANGED <<quests, questWritePending, writeData, listenRate, now,
                 response>>
  /\ UNCHANGED otherVars

\* fs.writeFile writes the data
WriteFlush ==
  /\ writeJob = "write"
  /\ disk' = writeData
  /\ writeData' = NoData
  /\ writeJob' = "callback"
  /\ UNCHANGED <<quests, questWritePending, listenRate, now, response>>
  /\ UNCHANGED otherVars

\* the callback of fs.writeFile
WriteCallback ==
  /\ writeJob = "callback"
  /\ questWritePending' = FALSE
  /\ writeJob' = "none"
  /\ UNCHANGED <<quests, disk, writeData, listenRate, now, response>>
  /\ UNCHANGED otherVars

\* POST /developer/cache/clear: clearCache(); reloadDataFromDisk()
CacheClear ==
  /\ quests' = loadDataFile(disk)
  /\ resident' = LoadLists(dataFiles)
  /\ index' = rebuildIndexes(index, resident')
  /\ response' = 200
  /\ UNCHANGED <<disk, questWritePending, writeJob, writeData, listenRate,
                 now, dataFiles>>
  /\ UNCHANGED <<matchVars, clientVars, passed, loopVars, navVars>>

\* a reset that leaves the completed quests as they are
ResetState_ActiveOnly(qs) ==
  [i \in DOMAIN qs |-> IF qs[i].state.status = "completed" THEN qs[i]
                        ELSE [qs[i] EXCEPT !.state = InitialState]]

\* a reset that empties the list of matched ids and keeps the set index
ResetState_KeepIndex(qs) ==
  [i \in DOMAIN qs |->
     [qs[i] EXCEPT !.state =
        [status |-> "active", matchedRecordingIds |-> <<>>,
         matchedRecordingIdsSet |-> qs[i].state.matchedRecordingIdsSet]]]

\* POST /developer/quests/reset
ResetState(qs) == [i \in DOMAIN qs |-> [qs[i] EXCEPT !.state = InitialState]]

QuestsReset ==
  /\ quests' = ResetState(quests)
  /\ disk' = JSONStringify(quests')
  /\ response' = 200
  /\ UNCHANGED <<questWritePending, writeJob, writeData, listenRate, now>>
  /\ UNCHANGED otherVars

\* time passes
Tick ==
  /\ now < MaxNow
  /\ now' = now + 1
  /\ UNCHANGED <<quests, disk, questWritePending, writeJob, writeData,
                 listenRate, response>>
  /\ UNCHANGED otherVars

\* the client has loaded nothing and called nothing
ClientIdle == activeQuests = <<>> /\ cSong = None /\ cResult = None

\* no request has passed the rate limiter
NonePassed == [k \in Users |-> [t \in 0..windowMs |-> 0]]

\* no listen handler is running
LoopIdle == listenPos = 0 /\ listenRec = None /\ listenChanged = FALSE

\* the state after `reloadDataFromDisk()` at startup
Init ==
  /\ disk = JSONStringify(questsJson)
  /\ quests = loadDataFile(disk)
  /\ questWritePending = FALSE
  /\ writeJob = "none"
  /\ writeData = NoData
  /\ listenRate = [k \in Users |-> NoEntry]
  /\ now = 0
  /\ response = 0
  /\ mRecording = songs[1]
  /\ mParams = None
  /\ mResult = None
  /\ ClientIdle
  /\ passed = NonePassed
  /\ LoopIdle
  /\ NavIdle
  /\ IndexLoaded

Next ==
  \/ \E u \in Users : \E r \in RequestIds : Listen(u, r)
  \/ ListenUnauthenticated
  \/ WriteStart
  \/ WriteOpen
  \/ WriteFlush
  \/ WriteCallback
  \/ CacheClear
  \/ QuestsReset
  \/ Tick

Spec == Init /\ [][Next]_vars

---------------------------------------------------------------------------
(* The matching predicate on its own: every recording against every        *)
(* constraint set                                                          *)

OptArtists == {None, Some({}), Some({"art_1"}), Some({"art_2"}),
               Some({"art_1", "art_2"})}

Recordings ==
  [song_id : {"rec_x"}, artist_ids : OptArtists,
   artistIds : {None, Some({"art_1"})},
   year : {None} \cup {Some(y) : y \in Years},
   genre_ids : {{}, {"gen_1"}}]

\* the values of genreId, albumId, startTime and endTime
Extras ==
  [genreId : {None, Some("gen_1")}, albumId : {None, Some("alb_1")},
   startTime : {None, Some(6)}, endTime : {None, Some(12)}]

QuestParams ==
  {None} \cup
  { WithExtras(Params(a, s, e, c), x, None, t, None) :
      a \in {None} \cup {Some(y) : y \in ArtistIds},
      s \in {None, Some(1990)},
      e \in {None, Some(1999)},
      c \in {None, Some(2)},
      x \in {None, Some("gen_1")},
      t \in {None, Some(6)} }

\* recordingMatchesQuestParams(mRecording, mParams) is called
Match ==
  /\ mResult = None
  /\ mResult' = Some(recordingMatchesQuestParams(mRecording, mParams))
  /\ UNCHANGED <<mRecording, mParams>>
  /\ UNCHANGED <<serverVars, clientVars, passed, loopVars, navVars, indexVars>>

InitMatch ==
  /\ mRecording \in Recordings
  /\ mParams \in QuestParams
  /\ mResult = None
  /\ disk = JSONStringify(questsJson)
  /\ quests = loadDataFile(disk)
  /\ questWritePending = FALSE
  /\ writeJob = "none"
  /\ writeData = NoData
  /\ listenRate = [k \in Users |-> NoEntry]
  /\ now = 0
  /\ response = 0
  /\ ClientIdle
  /\ passed = NonePassed
  /\ LoopIdle
  /\ NavIdle
  /\ IndexLoaded

NextMatch == Match

SpecMatch == InitMatch /\ [][NextMatch]_vars

---------------------------------------------------------------------------
(* Properties of the quest progress engine                                 *)

Ids(i) == quests[i].state.matchedRecordingIds
Status(i) == quests[i].state.status

\* some user's listen request for recording id r is handled in this step
ListenStep(r) == \E u \in Users : Listen(u, r)

\* C1. Idempotence: in every reachable state and for every song of the
\* catalog, applying the listen event for that song to the quest list twice
\* gives the same quests (status, matchedRecordingIds and set index) as
\* applying it once.
C1_Idempotence ==
  \A k \in DOMAIN songs :
    ApplyToAll(ApplyToAll(quests, songs[k]), songs[k])
      = ApplyToAll(quests, songs[k])

\* a state with recorded progress in which a further event still advances
\* a quest
C1_Witness ==
  /\ \E i \in DOMAIN quests : Len(Ids(i)) > 0
  /\ \E k \in DOMAIN songs : ApplyToAll(quests, songs[k]) # quests

\* C2. Completion invariant: in every reachable state each quest is
\* "completed" exactly when the number of its matched recordings has
\* reached requiredCount (1 when absent).
C2_CompletionInvariant ==
  \A i \in DOMAIN quests :
    (Status(i) = "completed") <=> (Len(Ids(i)) >= RequiredCount(quests[i].params))

\* one quest completed while another one is active with progress
C2_Witness ==
  \E i, j \in DOMAIN quests :
    /\ Status(i) = "completed"
    /\ Status(j) = "active" /\ Len(Ids(j)) > 0

\* C3. No over-match: in every reachable state no quest has more matched
\* recordings than its requiredCount (1 when absent).
C3_NoOverMatch ==
  \A i \in DOMAIN quests : Len(Ids(i)) <= RequiredCount(quests[i].params)

\* quest_3 (no constraint, requiredCount 2) was full with rec_3 and rec_1
\* when rec_2, which satisfies its params too, was listened to (quest_1
\* recorded rec_2 after rec_1)
C3_Witness ==
  /\ Len(quests) = 3
  /\ Ids(3) = <<"rec_3", "rec_1">>
  /\ Ids(1) = <<"rec_1", "rec_2">>
  /\ recordingMatchesQuestParams(songs[2], quests[3].params)

\* C4. Terminal freeze: a listen request, whatever its recording and user,
\* leaves every quest that is "completed" exactly as it was.
C4_TerminalFreeze ==
  [][\A r \in RequestIds :
       ListenStep(r) =>
         \A i \in DOMAIN quests :
           Status(i) = "completed" =>
             i \in DOMAIN quests' /\ quests'[i] = quests[i]]_vars

\* quest_2 was completed by rec_1, and rec_3, which satisfies the params of
\* quest_2 as well, was listened to afterwards (quest_3 recorded it)
C4_Witness ==
  /\ Len(quests) = 3
  /\ Status(2) = "completed" /\ Ids(2) = <<"rec_1">>
  /\ Ids(3) = <<"rec_1", "rec_3">>
  /\ recordingMatchesQuestParams(songs[3], quests[2].params)

\* C5. Monotonicity: a step that is not the quest reset never shortens, or
\* removes, the matchedRecordingIds of a quest.
C5_Monotonicity ==
  [][QuestsReset \/
     \A i \in DOMAIN quests :
       /\ i \in DOMAIN quests'
       /\ Len(quests'[i].state.matchedRecordingIds) >= Len(Ids(i))]_vars

\* C6. Independence: a listen request changes only quests that are active,
\* have not matched the recording yet and whose params the recording
\* satisfies; every other quest is left exactly as it was, and no quest is
\* added or removed.
C6_Independence ==
  [][\A r \in RequestIds :
       ListenStep(r) =>
         /\ DOMAIN quests' = DOMAIN quests
         /\ \A i \in DOMAIN quests :
              quests'[i] # quests[i] =>
                /\ Status(i) = "active"
                /\ r \notin quests[i].state.matchedRecordingIdsSet
                /\ IsDefined(songsMap(r))
                /\ recordingMatchesQuestParams(Get(songsMap(r)),
                                               quests[i].params)]_vars

\* after the listen events for rec_1 and rec_2, quest_1 and quest_3 hold
\* both, and quest_2, whose year window rec_2 misses, holds rec_1 only
C6_Witness ==
  /\ Len(quests) = 3
  /\ response = 200
  /\ Ids(1) = <<"rec_1", "rec_2">>
  /\ Ids(2) = <<"rec_1">>
  /\ Ids(3) = <<"rec_1", "rec_2">>

---------------------------------------------------------------------------
(* Properties of the matching predicate                                    *)

Called == IsDefined(mResult)
Result == Get(mResult)
HasYear == IsDefined(mRecording.year)
HasParams == IsDefined(mParams)
P == Get(mParams)

\* the year lies below a present startYear or above a present endYear
OutsideWindow(year, p) ==
  \/ IsDefined(p.startYear) /\ year < Get(p.startYear)
  \/ IsDefined(p.endYear) /\ year > Get(p.endYear)

\* the artist constraint, when there is one, is met
ArtistOk(recording, p) ==
  IsDefined(p.artistId) => Get(p.artistId) \in RecArtistIds(recording)

\* C7. A recording without a year never matches params that carry a
\* startYear or an endYear.
C7_NoYearNeverMatches ==
  (Called /\ ~HasYear /\ HasParams
     /\ (IsDefined(P.startYear) \/ IsDefined(P.endYear)))
    => Result = FALSE

\* C8. For a recording with a year, the predicate is false whenever the
\* year lies outside the window of the params; a year inside the window
\* fails only on the artist constraint; and a fresh quest with these params
\* records nothing for a recording outside the window.
C8_YearWindow ==
  (Called /\ HasYear /\ HasParams) =>
    LET year == Get(mRecording.year)
        quest == [id |-> "quest_x", templateId |-> "tpl_listen_by_year",
                  params |-> mParams, reward |-> None,
                  state |-> InitialState]
    IN  /\ OutsideWindow(year, P) => Result = FALSE
        /\ OutsideWindow(year, P) => applyListenEvent(quest, mRecording) = quest
        /\ (~OutsideWindow(year, P) /\ ArtistOk(mRecording, P)) => Result = TRUE

\* year 2005 against the window 1990..1999: no match
C8_Witness ==
  /\ Called /\ HasParams
  /\ mRecording.year = Some(2005)
  /\ P.startYear = Some(1990) /\ P.endYear = Some(1999)
  /\ Result = FALSE

\* C9. With an artistId in the params the predicate is true only if the
\* recording's artist ids contain it; a recording without any artist id
\* never matches such params.
C9_ArtistRule ==
  (Called /\ HasParams /\ IsDefined(P.artistId)) =>
    /\ Result = TRUE => Get(P.artistId) \in RecArtistIds(mRecording)
    /\ RecArtistIds(mRecording) = {} => Result = FALSE

\* a recording without artist_ids and artistIds against an artistId
C9_Witness ==
  /\ Called /\ HasParams /\ IsDefined(P.artistId)
  /\ mRecording.artist_ids = None /\ mRecording.artistIds = None
  /\ Result = FALSE

\* C10. Absent params, and params with none of artistId, startYear and
\* endYear, match every recording.
C10_EmptyParamsMatch ==
  (Called /\ (~HasParams \/ (P.artistId = None /\ P.startYear = None
                              /\ P.endYear = None)))
    => Result = TRUE

\* absent params against a recording without artists and year
C10_Witness ==
  /\ Called /\ ~HasParams
  /\ RecArtistIds(mRecording) = {} /\ ~HasYear
  /\ Result = TRUE

\* the constraint sets that agree with p on artistId, startYear, endYear and
\* requiredCount
Variants(p) ==
  {WithExtras(Some(p), x.genreId, x.albumId, x.startTime, x.endTime) :
     x \in Extras}

TemplateIds == {"tpl_listen_count", "tpl_listen_by_genre",
                "tpl_listen_between_time", "tpl_listen_to_album"}

\* states a quest with requiredCount 2 or 1 can be in before the event
SomeStates ==
  { InitialState,
    [status |-> "active", matchedRecordingIds |-> <<"rec_y">>,
     matchedRecordingIdsSet |-> {"rec_y"}],
    [status |-> "active", matchedRecordingIds |-> <<"rec_x">>,
     matchedRecordingIdsSet |-> {"rec_x"}],
    [status |-> "completed", matchedRecordingIds |-> <<"rec_y">>,
     matchedRecordingIdsSet |-> {"rec_y"}] }

\* C11. The outcome of the predicate depends only on artistId, startYear and
\* endYear of the params and on the artist ids and the year of the
\* recording: params that differ only in genreId, albumId, startTime or
\* endTime give the same result, and two quests that differ only in these
\* and in templateId make the same state transition on the recording.
C11_OnlyArtistAndYears ==
  (Called /\ HasParams) =>
    \A v \in Variants(P) :
      /\ recordingMatchesQuestParams(mRecording, v) = Result
      /\ \A t1, t2 \in TemplateIds : \A st \in SomeStates :
           applyListenEvent([id |-> "quest_x", templateId |-> t1,
                             params |-> mParams, reward |-> None,
                             state |-> st], mRecording).state
           = applyListenEvent([id |-> "quest_x", templateId |-> t2,
                               params |-> v, reward |-> None,
                               state |-> st], mRecording).state

\* params with a genreId matched a recording that is not of that genre
C11_Witness ==
  /\ Called /\ HasParams
  /\ P.genreId = Some("gen_1") /\ P.startTime = Some(6)
  /\ mRecording.genre_ids = {}
  /\ Result = TRUE

---------------------------------------------------------------------------
(* Reward lookup and collection: the functions on their own, on every      *)
(* quest list of the bounded set                                           *)

\* longest quest list the functions are called with
MaxClientQuests == 2

\* the type and entityId tests without the quest.reward test
getQuestsRewardingSong_NoTypeTest(song) ==
  IF ~IsDefined(song) \/ ~Truthy(Get(song).song_id) THEN <<>>
  ELSE SelectSeq(activeQuests,
         LAMBDA quest :
           /\ IsDefined(quest.reward)
           /\ Some(Get(quest.reward).entityId) = Get(song).song_id)

\* getQuestsRewardingSong(song), reading the global activeQuests
getQuestsRewardingSong(song) ==
  IF ~IsDefined(song) \/ ~Truthy(Get(song).song_id) THEN <<>>
  ELSE SelectSeq(activeQuests,
         LAMBDA quest :
           /\ IsDefined(quest.reward)
           /\ Get(quest.reward).type = "song"
           /\ Some(Get(quest.reward).entityId) = Get(song).song_id)

\* questsThatGrantRecording(quests, songId) of logic/rewardLookup, after
\* section 4.3 of the specification
questsThatGrantRecording(qs, songId) ==
  SelectSeq(qs,
    LAMBDA quest :
      /\ IsDefined(quest.reward)
      /\ Get(quest.reward).type = "song"
      /\ Get(quest.reward).entityId = songId)

\* allSongs.find(s => s && s.song_id === id): {} when there is none
FindSong(id) ==
  LET hits == {k \in DOMAIN songs : songs[k].song_id = id}
  IN  IF hits = {} THEN None
      ELSE Some(songs[CHOOSE k \in hits : \A j \in hits : k <= j])

\* .map(q => allSongs.find(...)).filter(Boolean)
RECURSIVE FoundSongs(_)
FoundSongs(qs) ==
  IF qs = <<>> THEN <<>>
  ELSE LET song == FindSong(Get(Head(qs).reward).entityId)
       IN  (IF IsDefined(song) THEN <<Get(song)>> ELSE <<>>)
             \o FoundSongs(Tail(qs))

\* collectedSongs without the filter on the status
collectedSongs_AnyStatus ==
  FoundSongs(SelectSeq(activeQuests,
    LAMBDA q : /\ IsDefined(q.reward)
               /\ Get(q.reward).type = "song"
               /\ Get(q.reward).entityId # ""))

\* collectedSongs of showCollectionTab
collectedSongs ==
  LET completedQuests ==
        SelectSeq(activeQuests, LAMBDA q : q.state.status = "completed")
  IN  FoundSongs(SelectSeq(completedQuests,
        LAMBDA q : /\ IsDefined(q.reward)
                   /\ Get(q.reward).type = "song"
                   /\ Get(q.reward).entityId # ""))

QuestNames == <<"quest_1", "quest_2", "quest_3", "quest_4">>

\* params and state of a quest of the client's list: states the engine
\* leaves a quest with these params in
ClientShapes ==
  { [params |-> Params(None, None, None, Some(2)), state |-> InitialState],
    [params |-> Params(None, None, None, Some(2)),
     state |-> [status |-> "active", matchedRecordingIds |-> <<"rec_1">>,
                matchedRecordingIdsSet |-> {"rec_1"}]],
    [params |-> Params(None, None, None, Some(2)),
     state |-> [status |-> "completed",
                matchedRecordingIds |-> <<"rec_1", "rec_2">>,
                matchedRecordingIdsSet |-> {"rec_1", "rec_2"}]],
    [params |-> Params(Some("art_1"), None, None, None),
     state |-> InitialState],
    [params |-> Params(Some("art_1"), None, None, None),
     state |-> [status |-> "completed", matchedRecordingIds |-> <<"rec_1">>,
                matchedRecordingIdsSet |-> {"rec_1"}]] }

ClientRewards ==
  { None, SongReward("rec_1"), SongReward("rec_2"), SongReward("rec_9"),
    Some([type |-> "badge", entityId |-> "rec_9"]) }

ClientQuestLists ==
  UNION { { [i \in 1..n |->
               [id |-> QuestNames[i], templateId |-> "tpl_listen_count",
                params |-> f[i][1].params, reward |-> f[i][2],
                state |-> f[i][1].state]] :
            f \in [1..n -> ClientShapes \X ClientRewards] } :
          n \in 0..MaxClientQuests }

\* the songs a client function is called with: none, one without song_id,
\* songs of the catalog and a song that only a reward names
ClientSongs ==
  { None,
    Some([song_id |-> None]),
    Some([song_id |-> Some("rec_1")]),
    Some([song_id |-> Some("rec_9")]) }

\* getQuestsRewardingSong(cSong) is called
RewardLookup ==
  /\ cResult = None
  /\ cResult' = Some([op |-> "rewarding",
                      value |-> getQuestsRewardingSong(cSong)])
  /\ UNCHANGED <<activeQuests, cSong>>
  /\ UNCHANGED <<serverVars, matchVars, passed, loopVars, navVars,
                 indexVars>>

\* questsThatGrantRecording(activeQuests, songId) is called, as GET
\* /songs/:id does with the server's list
GrantLookup ==
  /\ cResult = None
  /\ IsDefined(cSong) /\ IsDefined(Get(cSong).song_id)
  /\ cResult' = Some([op |-> "granting",
                      value |-> questsThatGrantRecording(activeQuests,
                                  Get(Get(cSong).song_id))])
  /\ UNCHANGED <<activeQuests, cSong>>
  /\ UNCHANGED <<serverVars, matchVars, passed, loopVars, navVars,
                 indexVars>>

\* showCollectionTab() computes collectedSongs
ShowCollection ==
  /\ cResult = None
  /\ cResult' = Some([op |-> "collection", value |-> collectedSongs])
  /\ UNCHANGED <<activeQuests, cSong>>
  /\ UNCHANGED <<serverVars, matchVars, passed, loopVars, navVars,
                 indexVars>>

InitClient ==
  /\ activeQuests \in ClientQuestLists
  /\ cSong \in ClientSongs
  /\ cResult = None
  /\ disk = JSONStringify(questsJson)
  /\ quests = loadDataFile(disk)
  /\ questWritePending = FALSE
  /\ writeJob = "none"
  /\ writeData = NoData
  /\ listenRate = [k \in Users |-> NoEntry]
  /\ now = 0
  /\ response = 0
  /\ mRecording = songs[1]
  /\ mParams = None
  /\ mResult = None
  /\ passed = NonePassed
  /\ LoopIdle
  /\ NavIdle
  /\ IndexLoaded

NextClient ==
  \/ RewardLookup
  \/ GrantLookup
  \/ ShowCollection

SpecClient == InitClient /\ [][NextClient]_vars

ClientCalled(op) == IsDefined(cResult) /\ Get(cResult).op = op
ClientValue == Get(cResult).value

\* quest i of the client's list rewards the song with this id
Rewards(i, id) ==
  /\ IsDefined(activeQuests[i].reward)
  /\ Get(activeQuests[i].reward).type = "song"
  /\ Get(activeQuests[i].reward).entityId = id

\* result holds the quests of activeQuests at the indexes idx, in the order
\* of the list
HoldsInOrder(result, idx) ==
  /\ Len(result) = Cardinality(idx)
  /\ \A k \in DOMAIN result :
       \E i \in idx : /\ Cardinality({j \in idx : j < i}) = k - 1
                      /\ result[k] = activeQuests[i]

\* C12. The reward lookup returns exactly the quests whose reward has type
\* "song" and the given song id as entityId, in the order of the quest list,
\* and leaves the list as it was; without a song or a song id the client's
\* lookup returns nothing.
C12_RewardLookup ==
  [][(RewardLookup \/ GrantLookup) =>
       /\ activeQuests' = activeQuests
       /\ IF IsDefined(cSong) /\ IsDefined(Get(cSong).song_id)
            THEN HoldsInOrder(Get(cResult').value,
                   {i \in DOMAIN activeQuests :
                      Rewards(i, Get(Get(cSong).song_id))})
            ELSE Get(cResult').value = <<>>]_vars

\* song id rec_9 and a list of two quests of which the second, and only the
\* second, rewards the song rec_9: exactly that quest is returned
C12_Witness ==
  /\ ClientCalled("granting")
  /\ cSong = Some([song_id |-> Some("rec_9")])
  /\ Len(activeQuests) = 2
  /\ activeQuests[1].reward = Some([type |-> "badge", entityId |-> "rec_9"])
  /\ activeQuests[2].reward = SongReward("rec_9")
  /\ ClientValue = <<activeQuests[2]>>

\* C13. A song of the catalog is in the collection exactly when a quest
\* that rewards it (type "song", entityId the song) is completed; the
\* collection holds nothing else.
C13_CollectionIffCompleted ==
  ClientCalled("collection") =>
    /\ \A id \in SongIds :
         (\E k \in DOMAIN ClientValue : ClientValue[k].song_id = id)
           <=> (\E i \in DOMAIN activeQuests :
                  Rewards(i, id) /\ activeQuests[i].state.status = "completed")
    /\ \A k \in DOMAIN ClientValue : ClientValue[k].song_id \in SongIds

\* rec_1 is rewarded by a completed quest and is in the collection, rec_2
\* is rewarded by an active quest with progress and is not
C13_Witness ==
  /\ ClientCalled("collection")
  /\ \E i, j \in DOMAIN activeQuests :
       /\ Rewards(i, "rec_1") /\ activeQuests[i].state.status = "completed"
       /\ Rewards(j, "rec_2") /\ activeQuests[j].state.status = "active"
       /\ Len(activeQuests[j].state.matchedRecordingIds) > 0
  /\ \E k \in DOMAIN ClientValue : ClientValue[k].song_id = "rec_1"
  /\ \A k \in DOMAIN ClientValue : ClientValue[k].song_id # "rec_2"

---------------------------------------------------------------------------
(* Rejected listen events                                                  *)

\* C14. A listen event whose recording id is not in the catalog is rejected,
\* with 404 (with 429 when the identity is over its quota, which is tested
\* first), changes no quest and schedules no write.
C14_NotFoundChangesNothing ==
  [][\A u \in Users : \A r \in RequestIds :
       (Listen(u, r) /\ ~IsDefined(songsMap(r))) =>
         /\ response' = IF isRateLimited(u) THEN 429 ELSE 404
         /\ quests' = quests
         /\ questWritePending' = questWritePending
         /\ writeJob' = writeJob
         /\ disk' = disk /\ writeData' = writeData]_vars

\* a 404 was answered while quests have progress and no write is scheduled
C14_Witness ==
  /\ response = 404
  /\ Len(quests) = 3 /\ Ids(3) = <<"rec_1">>
  /\ ~questWritePending /\ writeJob = "none"

\* C15. A listen event of an identity over its quota is answered 429 and
\* leaves nothing behind: no quest changes, no write is scheduled, and the
\* state keeps no record of the event that could be applied later.
C15_RateLimitedChangesNothing ==
  [][\A u \in Users : \A r \in RequestIds :
       (Listen(u, r) /\ isRateLimited(u)) =>
         /\ response' = 429
         /\ UNCHANGED <<quests, disk, questWritePending, writeJob, writeData,
                        listenRate, now>>]_vars

\* a 429 was answered to an identity that has used its quota, with quests in
\* progress
C15_Witness ==
  /\ response = 429
  /\ listenRate["uid_1"].count = limit
  /\ Len(quests) = 3 /\ Ids(3) # <<>> /\ Status(3) = "active"

\* C17. A listen request rejected by the identity verification is answered
\* 401, uses no quota of the rate limiter and changes no quest and no write
\* state.
C17_UnauthenticatedChangesNothing ==
  [][ListenUnauthenticated =>
       /\ response' = 401
       /\ UNCHANGED <<quests, disk, questWritePending, writeJob, writeData,
                      listenRate, now>>]_vars

\* a 401 was answered while the identity still has quota left and quests
\* have progress
C17_Witness ==
  /\ response = 401
  /\ listenRate["uid_1"].count = 1
  /\ Len(quests) = 3 /\ Ids(3) # <<>>

---------------------------------------------------------------------------
(* The rate limiter with two identities, and a record of the requests that *)
(* passed it at each of the last windowMs + 1 clock values                 *)

RateUsers == {"uid_1", "uid_2"}

\* a recording of the catalog and an id that is not in it
RateRequests == {"rec_3", "rec_404"}

\* passed[u][a]: requests of u that passed at clock value now - a
PassedAfterListen(u) ==
  IF isRateLimited(u) THEN passed ELSE [passed EXCEPT ![u][0] = @ + 1]

PassedAfterTick ==
  [u \in DOMAIN passed |->
     [a \in 0..windowMs |-> IF a = 0 THEN 0 ELSE passed[u][a - 1]]]

ListenCounted(userId, recordingId) ==
  /\ ListenHandler(userId, recordingId)
  /\ passed' = PassedAfterListen(userId)
  /\ UNCHANGED <<matchVars, clientVars, loopVars, navVars, indexVars>>

TickCounted ==
  /\ now < MaxNow
  /\ now' = now + 1
  /\ passed' = PassedAfterTick
  /\ UNCHANGED <<quests, disk, questWritePending, writeJob, writeData,
                 listenRate, response>>
  /\ UNCHANGED <<matchVars, clientVars, loopVars, navVars, indexVars>>

InitRate ==
  /\ disk = JSONStringify(questsJson)
  /\ quests = loadDataFile(disk)
  /\ questWritePending = FALSE
  /\ writeJob = "none"
  /\ writeData = NoData
  /\ listenRate = [k \in RateUsers |-> NoEntry]
  /\ now = 0
  /\ response = 0
  /\ mRecording = songs[1]
  /\ mParams = None
  /\ mResult = None
  /\ ClientIdle
  /\ passed = [k \in RateUsers |-> [a \in 0..windowMs |-> 0]]
  /\ LoopIdle
  /\ NavIdle
  /\ IndexLoaded

NextRate ==
  \/ \E u \in RateUsers : \E r \in RateRequests : ListenCounted(u, r)
  \/ TickCounted

SpecRate == InitRate /\ [][NextRate]_vars

RECURSIVE SumAges(_, _)
SumAges(f, n) == IF n < 0 THEN 0 ELSE f[n] + SumAges(f, n - 1)

\* requests of u that passed the limiter in the interval [now - windowMs, now]
PassedInInterval(u) == SumAges(passed[u], windowMs)

\* requests of u that passed since the current window of u was opened
PassedInWindow(u) == SumAges(passed[u], now - listenRate[u].ts)

\* C16, as claimed. In every interval of length windowMs at most `limit`
\* listen events of an identity pass the rate limiter.
C16_SlidingWindow ==
  \A u \in RateUsers : PassedInInterval(u) <= limit

\* C16, amended. At most `limit` listen events of an identity pass within
\* one window of the limiter (a window opens with the identity's first event
\* and with its first event more than windowMs after the last opening); in
\* an arbitrary interval of length windowMs at most 2 * limit - 1 pass.
C16_FixedWindow ==
  \A u \in RateUsers :
    /\ (listenRate[u].count > 0 /\ now - listenRate[u].ts <= windowMs) =>
         PassedInWindow(u) <= limit
    /\ PassedInInterval(u) <= 2 * limit - 1

\* an identity is being rejected in a window in which `limit` of its events
\* passed, after 2 * limit - 1 passed within windowMs, while the other
\* identity has passed one
C16_Witness ==
  /\ response = 429
  /\ isRateLimited("uid_1")
  /\ PassedInWindow("uid_1") = limit
  /\ PassedInInterval("uid_1") = 2 * limit - 1
  /\ PassedInInterval("uid_2") = 1

---------------------------------------------------------------------------
(* A quest list with a malformed quest in the file                         *)

\* quests.json with the second quest lacking its params
questsJsonMalformed ==
  << questsJson[1],
     [id |-> "quest_2", templateId |-> "tpl_listen_by_year",
      reward |-> None, state |-> InitialState],
     questsJson[3] >>

InitMalformed ==
  /\ disk = JSONStringify(questsJsonMalformed)
  /\ quests = loadDataFile(disk)
  /\ questWritePending = FALSE
  /\ writeJob = "none"
  /\ writeData = NoData
  /\ listenRate = [k \in Users |-> NoEntry]
  /\ now = 0
  /\ response = 0
  /\ mRecording = songs[1]
  /\ mParams = None
  /\ mResult = None
  /\ ClientIdle
  /\ passed = NonePassed
  /\ LoopIdle
  /\ NavIdle
  /\ IndexLoaded

\* the requests; the write steps are left out because no write is ever
\* scheduled from this file: every listen that reaches the forEach leaves
\* the handler by the exception, before scheduleQuestWrite()
NextMalformed ==
  \/ \E u \in Users : \E r \in RequestIds : Listen(u, r)
  \/ ListenUnauthenticated
  \/ CacheClear
  \/ QuestsReset
  \/ Tick

SpecMalformed == InitMalformed /\ [][NextMalformed]_vars

\* C19. When a listen event meets a malformed quest, every well-formed quest
\* of the list, before and after it, is still processed for the event, and
\* the failure is reported (the request is answered 500).
C19_MalformedHaltsOnlyThatQuest ==
  [][\A u \in Users : \A r \in SongIds :
       (/\ Listen(u, r)
        /\ ~isRateLimited(u)
        /\ \E i \in DOMAIN quests : Malformed(quests[i])) =>
         /\ \A i \in DOMAIN quests :
              ~Malformed(quests[i]) =>
                quests'[i] = applyListenEvent(quests[i], Get(songsMap(r)))
         /\ response' = 500]_vars

---------------------------------------------------------------------------
(* Listen events and the writes they schedule, without the developer       *)
(* requests                                                                *)

NextPersist ==
  \/ \E u \in Users : \E r \in RequestIds : Listen(u, r)
  \/ WriteStart
  \/ WriteOpen
  \/ WriteFlush
  \/ WriteCallback
  \/ Tick

SpecPersist == Init /\ [][NextPersist]_vars

\* C20. Once every scheduled write has completed, the file holds the quest
\* state of memory, whatever listen events were accepted and however they
\* fell between the steps of the writes.
C20_PersistedWhenQuiescent ==
  (writeJob = "none" /\ ~questWritePending) => disk = JSONStringify(quests)

---------------------------------------------------------------------------
(* The listen handler one iteration of its forEach at a time               *)

\* a handler that gave up the call stack between the iterations (an await
\* in the loop)
StackEmpty_AwaitInLoop == TRUE

\* the event loop starts a handler or callback only when no handler is
\* running; the listen handler is synchronous from its first line to
\* res.json, so it is running while its forEach is
StackEmpty == listenPos = 0

\* POST /listen/:recordingId up to the forEach
ListenBegin(userId, recordingId) ==
  /\ StackEmpty
  /\ listenRate' = RateAfter(userId)
  /\ IF isRateLimited(userId)
       THEN /\ response' = 429
            /\ UNCHANGED loopVars
     ELSE IF ~IsDefined(songsMap(recordingId))
       THEN /\ response' = 404
            /\ UNCHANGED loopVars
     ELSE /\ listenRec' = songsMap(recordingId)
          /\ listenPos' = 1
          /\ listenChanged' = FALSE
          /\ UNCHANGED response
  /\ UNCHANGED <<quests, disk, questWritePending, writeJob, writeData, now>>
  /\ UNCHANGED <<matchVars, clientVars, passed, navVars, indexVars>>

\* one iteration: applyListenEvent(quest, recording) on quests[listenPos];
\* an exception ends the handler, and listenRec and listenChanged then keep
\* the event that was given up
ListenApply ==
  /\ listenPos \in DOMAIN quests
  /\ IF Malformed(quests[listenPos])
       THEN /\ response' = 500
            /\ listenPos' = 0
            /\ UNCHANGED <<quests, listenRec, listenChanged>>
       ELSE LET quest == applyListenEvent(quests[listenPos], Get(listenRec))
            IN  /\ quests' = [quests EXCEPT ![listenPos] = quest]
                /\ listenPos' = listenPos + 1
                /\ listenChanged' = (listenChanged \/ quest # quests[listenPos])
                /\ UNCHANGED <<listenRec, response>>
  /\ UNCHANGED <<disk, questWritePending, writeJob, writeData, listenRate,
                 now>>
  /\ UNCHANGED <<matchVars, clientVars, passed, navVars, indexVars>>

\* after the forEach: scheduleQuestWrite(); res.json(...)
ListenEnd ==
  /\ listenPos = Len(quests) + 1
  /\ scheduleQuestWrite
  /\ response' = 200
  /\ listenPos' = 0 /\ listenRec' = None /\ listenChanged' = FALSE
  /\ UNCHANGED <<quests, disk, writeData, listenRate, now>>
  /\ UNCHANGED <<matchVars, clientVars, passed, navVars, indexVars>>

\* GET /quests: res.json(quests)
ReadQuests ==
  /\ response' = 200
  /\ UNCHANGED <<quests, disk, questWritePending, writeJob, writeData,
                 listenRate, now>>
  /\ UNCHANGED otherVars

\* the steps that read or replace the quest list: a handler of another
\* request or the setImmediate callback that takes the snapshot
Observer ==
  \/ \E u \in Users : \E r \in RequestIds : ListenBegin(u, r)
  \/ StackEmpty /\ ReadQuests
  \/ StackEmpty /\ WriteStart
  \/ StackEmpty /\ CacheClear
  \/ StackEmpty /\ QuestsReset

\* the file operations of fs.writeFile run in the thread pool, whatever the
\* call stack holds; its callback runs on the event loop
NextAtomic ==
  \/ Observer
  \/ ListenApply
  \/ ListenEnd
  \/ WriteOpen
  \/ WriteFlush
  \/ StackEmpty /\ WriteCallback
  \/ Tick

\* the server started from quests.json as shipped or from the file with the
\* malformed quest
InitAtomic ==
  /\ disk \in {JSONStringify(questsJson), JSONStringify(questsJsonMalformed)}
  /\ quests = loadDataFile(disk)
  /\ questWritePending = FALSE
  /\ writeJob = "none"
  /\ writeData = NoData
  /\ listenRate = [k \in Users |-> NoEntry]
  /\ now = 0
  /\ response = 0
  /\ mRecording = songs[1]
  /\ mParams = None
  /\ mResult = None
  /\ ClientIdle
  /\ passed = NonePassed
  /\ LoopIdle
  /\ NavIdle
  /\ IndexLoaded

SpecAtomic == InitAtomic /\ [][NextAtomic]_vars

\* of a listen event, under way or given up, some update has been applied
\* and some update has not: the event would still change a well-formed quest
\* that its forEach has not reached (an update that was applied is not
\* applied twice, so only missing updates count)
Partial ==
  /\ IsDefined(listenRec)
  /\ listenChanged
  /\ \E i \in DOMAIN quests :
       /\ listenPos = 0 \/ i >= listenPos
       /\ ~Malformed(quests[i])
       /\ applyListenEvent(quests[i], Get(listenRec)) # quests[i]

\* C18. No other listen event, read of /quests, cache reload, reset or
\* snapshot for a write takes place in a state in which only some of the
\* per-quest updates of a listen event have been applied.
C18_AtomicListen ==
  [][Observer => ~Partial]_vars

---------------------------------------------------------------------------
(* The reset, the set index and the operations that change the quest list  *)

\* C21. The reset puts every quest, active with progress or completed, back
\* to status "active" with no matched ids and an empty set index, keeps the
\* number of quests and leaves id, templateId, params and reward of every
\* quest as they were.
C21_ResetFrame ==
  [][QuestsReset =>
       /\ Len(quests') = Len(quests)
       /\ \A i \in DOMAIN quests :
            /\ quests'[i].state = InitialState
            /\ quests'[i].id = quests[i].id
            /\ quests'[i].templateId = quests[i].templateId
            /\ quests'[i].params = quests[i].params
            /\ quests'[i].reward = quests[i].reward]_vars

\* every quest is back at the initial state and the file holds that list,
\* while the write of an earlier listen event, whose file operations are
\* done, still waits for its callback
C21_Witness ==
  /\ Len(quests) = 3
  /\ \A i \in DOMAIN quests : quests[i].state = InitialState
  /\ quests[1].reward = SongReward("rec_3")
  /\ disk = JSONStringify(quests)
  /\ writeJob = "callback"
  /\ response = 200

\* the ids of a sequence, as a set
Range(seq) == {seq[k] : k \in DOMAIN seq}

C23_OnlyListenAndReset ==
  [][(quests' # quests) =>
       \/ \E u \in Users : \E r \in RequestIds : Listen(u, r)
       \/ QuestsReset]_vars

---------------------------------------------------------------------------
(* The order of the quests within one listen event                         *)

\* the processing orders of a list of n quests
Orders(n) ==
  {order \in [1..n -> 1..n] :
     \A i, j \in 1..n : order[i] = order[j] => i = j}

\* the loop of the handler taken over the quests in the given order: each
\* quest is updated in place and an exception ends the loop
RECURSIVE ApplyInOrder(_, _, _)
ApplyInOrder(qs, recording, order) ==
  IF order = <<>> THEN qs
  ELSE IF Malformed(qs[Head(order)]) THEN qs
  ELSE ApplyInOrder(
         [qs EXCEPT ![Head(order)] = applyListenEvent(@, recording)],
         recording, Tail(order))

\* C24. A listen event leaves every quest in the state that processing the
\* quests in any other order would leave it in.
C24_OrderIndependence ==
  [][\A u \in Users : \A r \in SongIds :
       (Listen(u, r) /\ ~isRateLimited(u)) =>
         \A order \in Orders(Len(quests)) :
           quests' = ApplyInOrder(quests, Get(songsMap(r)), order)]_vars

---------------------------------------------------------------------------
(* The reset among listen events and their writes, without the cache clear *)

NextReset ==
  \/ \E u \in Users : \E r \in RequestIds : Listen(u, r)
  \/ WriteStart
  \/ WriteOpen
  \/ WriteFlush
  \/ WriteCallback
  \/ QuestsReset
  \/ Tick

SpecReset == Init /\ [][NextReset]_vars

\* every quest is at the initial state
AllReset == \A i \in DOMAIN quests : quests[i].state = InitialState

\* C25. When every quest is at the initial state (at startup, or after a
\* reset with no listen event since) and every write has finished, the file
\* holds that state, also when the reset ran while a write scheduled by an
\* earlier listen event was pending or in flight.
C25_ResetDurable ==
  (AllReset /\ writeJob = "none" /\ ~questWritePending) =>
    disk = JSONStringify(quests)

---------------------------------------------------------------------------
(* Recovery of the rate limiter                                            *)

\* C29. A rejected request leaves the window start and the count of its
\* identity as they were; a request of an identity that comes more than
\* windowMs after the start of its window is accepted and opens a window
\* that starts now with count 1; a request never changes the entry of
\* another identity.
C29_LimiterRecovers ==
  [][\A u \in RateUsers : \A r \in RateRequests :
       ListenCounted(u, r) =>
         /\ isRateLimited(u) =>
              (response' = 429 /\ listenRate'[u] = listenRate[u])
         /\ (listenRate[u].count > 0 /\ now - listenRate[u].ts > windowMs) =>
              /\ response' # 429
              /\ listenRate'[u] = [ts |-> now, count |-> 1]
         /\ \A v \in RateUsers \ {u} : listenRate'[v] = listenRate[v]]_vars

\* an identity whose window that started at 0 was used up (the last
\* limit - 1 of its events passed at 1) has opened a new window at 2, while
\* the other identity is being rejected
C29_Witness ==
  /\ now = 2
  /\ listenRate["uid_1"] = [ts |-> 2, count |-> 1]
  /\ passed["uid_1"][1] = limit - 1
  /\ isRateLimited("uid_2")

---------------------------------------------------------------------------
(* The client's impact preview and related-quests filter                   *)

\* the body of the forEach of questImpactForSong: what one quest adds
QuestImpact(quest, song) ==
  IF quest.state.status # "active" THEN "none"
  ELSE IF song.song_id \in Range(quest.state.matchedRecordingIds) THEN "none"
  ELSE IF ~recordingMatchesQuestParams(song, quest.params) THEN "none"
  ELSE LET required == RequiredCount(quest.params)
           current == Len(quest.state.matchedRecordingIds)
       IN  IF current + 1 >= required THEN "completes" ELSE "advances"

\* questImpactForSong(song), reading the global activeQuests
questImpactForSong(song) ==
  [completes |->
     Cardinality({i \in DOMAIN activeQuests :
                    QuestImpact(activeQuests[i], song) = "completes"}),
   advances |->
     Cardinality({i \in DOMAIN activeQuests :
                    QuestImpact(activeQuests[i], song) = "advances"})]

\* the callback of the filter of getQuestsForSong
QuestIsForSong(quest, song) ==
  IF song.song_id \in Range(quest.state.matchedRecordingIds) THEN TRUE
  ELSE IF quest.state.status # "active" THEN FALSE
  ELSE IF ~IsDefined(quest.params) THEN FALSE
  ELSE LET p == Get(quest.params)
       IN  IF /\ Truthy(p.artistId)
              /\ IsDefined(song.artist_ids)
              /\ Get(p.artistId) \notin Get(song.artist_ids)
             THEN FALSE
           ELSE IF IsDefined(p.startYear) /\ JSLess(song.year, p.startYear)
             THEN FALSE
           ELSE IF IsDefined(p.endYear) /\ JSLess(p.endYear, song.year)
             THEN FALSE
           ELSE TRUE

\* getQuestsForSong(song), reading the global activeQuests
getQuestsForSong(song) ==
  IF ~IsDefined(song) \/ Get(song).song_id = "" THEN <<>>
  ELSE SelectSeq(activeQuests, LAMBDA quest : QuestIsForSong(quest, Get(song)))

\* songs the client functions are called with: the catalog's, a song
\* without artist_ids and a song with artistIds only
ImpactSongs ==
  { songs[k] : k \in DOMAIN songs } \cup
  { [song_id |-> "rec_4", artist_ids |-> None, artistIds |-> None,
     year |-> Some(1995), genre_ids |-> {}],
    [song_id |-> "rec_5", artist_ids |-> None,
     artistIds |-> Some({"art_1"}), year |-> Some(1990), genre_ids |-> {}] }

\* params and state of the quests of GET /quests: states the engine leaves
\* a quest with these params in, and a quest without params
ImpactShapes ==
  { [params |-> Params(None, None, None, Some(2)), state |-> InitialState],
    [params |-> Params(None, None, None, Some(2)),
     state |-> [status |-> "active", matchedRecordingIds |-> <<"rec_1">>,
                matchedRecordingIdsSet |-> {"rec_1"}]],
    [params |-> Params(None, None, None, Some(2)),
     state |-> [status |-> "completed",
                matchedRecordingIds |-> <<"rec_1", "rec_2">>,
                matchedRecordingIdsSet |-> {"rec_1", "rec_2"}]],
    [params |-> Params(Some("art_1"), None, None, None),
     state |-> InitialState],
    [params |-> Params(Some("art_1"), None, None, None),
     state |-> [status |-> "completed", matchedRecordingIds |-> <<"rec_1">>,
                matchedRecordingIdsSet |-> {"rec_1"}]],
    [params |-> Params(None, Some(1990), Some(1999), Some(2)),
     state |-> [status |-> "active", matchedRecordingIds |-> <<"rec_3">>,
                matchedRecordingIdsSet |-> {"rec_3"}]],
    [params |-> None, state |-> InitialState] }

ImpactQuestLists ==
  UNION { { [i \in 1..n |->
               [id |-> QuestNames[i], templateId |-> "tpl_listen_count",
                params |-> f[i].params, reward |-> None,
                state |-> f[i].state]] :
            f \in [1..n -> ImpactShapes] } :
          n \in 0..MaxClientQuests }

\* questImpactForSong(cSong) is called
ImpactPreview ==
  /\ cResult = None
  /\ cResult' = Some([op |-> "impact",
                      value |-> questImpactForSong(Get(cSong))])
  /\ UNCHANGED <<activeQuests, cSong>>
  /\ UNCHANGED <<serverVars, matchVars, passed, loopVars, navVars,
                 indexVars>>

\* getQuestsForSong(cSong) is called
RelatedQuests ==
  /\ cResult = None
  /\ cResult' = Some([op |-> "related", value |-> getQuestsForSong(cSong)])
  /\ UNCHANGED <<activeQuests, cSong>>
  /\ UNCHANGED <<serverVars, matchVars, passed, loopVars, navVars,
                 indexVars>>

InitImpact ==
  /\ activeQuests \in ImpactQuestLists
  /\ cSong \in {Some(song) : song \in ImpactSongs}
  /\ cResult = None
  /\ disk = JSONStringify(questsJson)
  /\ quests = loadDataFile(disk)
  /\ questWritePending = FALSE
  /\ writeJob = "none"
  /\ writeData = NoData
  /\ listenRate = [k \in Users |-> NoEntry]
  /\ now = 0
  /\ response = 0
  /\ mRecording = songs[1]
  /\ mParams = None
  /\ mResult = None
  /\ passed = NonePassed
  /\ LoopIdle
  /\ NavIdle
  /\ IndexLoaded

NextImpact ==
  \/ ImpactPreview
  \/ RelatedQuests

SpecImpact == InitImpact /\ [][NextImpact]_vars

\* the quest list after the listen handler's loop for the song
AfterListen == ApplyToAll(activeQuests, Get(cSong))

\* C27. The preview's completes is the number of quests the listen event
\* for the song moves to completed, its advances the number of quests the
\* event changes without completing them.
C27_PreviewAgreesWithEngine ==
  ClientCalled("impact") =>
    /\ ClientValue.completes =
         Cardinality({i \in DOMAIN activeQuests :
                        /\ AfterListen[i] # activeQuests[i]
                        /\ AfterListen[i].state.status = "completed"})
    /\ ClientValue.advances =
         Cardinality({i \in DOMAIN activeQuests :
                        /\ AfterListen[i] # activeQuests[i]
                        /\ AfterListen[i].state.status = "active"})

\* C28. For a song with a song_id, an active quest that has not matched the
\* song is in the result of getQuestsForSong exactly when
\* recordingMatchesQuestParams(song, quest.params) is true, and a quest that
\* has matched the song is always in it.
C28_FilterAgreesWithPredicate ==
  ClientCalled("related") =>
    \A i \in DOMAIN activeQuests :
      LET quest == activeQuests[i]
          song == Get(cSong)
          included == \E k \in DOMAIN ClientValue : ClientValue[k] = quest
      IN  /\ song.song_id \in Range(quest.state.matchedRecordingIds)
               => included
          /\ (/\ song.song_id \notin Range(quest.state.matchedRecordingIds)
              /\ quest.state.status = "active")
               => (included <=>
                     recordingMatchesQuestParams(song, quest.params))

---------------------------------------------------------------------------
(* Client navigation: the history under page openings, tab switches,      *)
(* developer-mode toggles and goBack                                       *)

\* what a handler of the client's navigation leaves alone
NavFrame ==
  UNCHANGED <<serverVars, matchVars, clientVars, passed, loopVars, indexVars>>

\* showArtist, showAlbum, showSong, showGenre, showQuest on an entity the
\* client holds: navigationHistory.push({ type, data })
ShowItemPage(t, d) ==
  /\ Len(navigationHistory) < MaxHistory
  /\ navigationHistory' = Append(navigationHistory, [type |-> t, data |-> d])
  /\ UNCHANGED <<developerModeEnabled, settingsModalOpen>>
  /\ NavFrame

\* showArtistsPage, showAlbumsPage, showGenresPage:
\* navigationHistory.push({ type })
ShowListPage(t) ==
  /\ Len(navigationHistory) < MaxHistory
  /\ navigationHistory' = Append(navigationHistory, [type |-> t])
  /\ UNCHANGED <<developerModeEnabled, settingsModalOpen>>
  /\ NavFrame

\* showSearchTab()
ShowSearchTab ==
  /\ navigationHistory' = <<[type |-> "home"]>>
  /\ UNCHANGED <<developerModeEnabled, settingsModalOpen>>
  /\ NavFrame

\* showCollectionTab()
ShowCollectionTab ==
  /\ navigationHistory' = <<[type |-> "collection"]>>
  /\ UNCHANGED <<developerModeEnabled, settingsModalOpen>>
  /\ NavFrame

\* showProfileTab(), up to the assignment that follows its await
ShowProfileTab ==
  /\ navigationHistory' = <<[type |-> "profile"]>>
  /\ UNCHANGED <<developerModeEnabled, settingsModalOpen>>
  /\ NavFrame

\* showDeveloperTab(), from the tab button or window.showDeveloperTab
ShowDeveloperTab ==
  /\ navigationHistory' =
       showDeveloperTab(navigationHistory, developerModeEnabled)
  /\ UNCHANGED <<developerModeEnabled, settingsModalOpen>>
  /\ NavFrame

\* settings-btn of the profile page: showSettingsModal() appends the modal
\* to the document, where it stays until it is closed
OpenSettings ==
  /\ navigationHistory = <<[type |-> "profile"]>>
  /\ settingsModalOpen' = TRUE
  /\ UNCHANGED <<navigationHistory, developerModeEnabled>>
  /\ NavFrame

\* the modal's close button
CloseSettings ==
  /\ settingsModalOpen
  /\ settingsModalOpen' = FALSE
  /\ UNCHANGED <<navigationHistory, developerModeEnabled>>
  /\ NavFrame

\* settings-developer-toggle-btn: setDeveloperMode(!developerModeEnabled)
ToggleDeveloperMode ==
  /\ settingsModalOpen
  /\ developerModeEnabled' = ~developerModeEnabled
  /\ UNCHANGED <<navigationHistory, settingsModalOpen>>
  /\ NavFrame

\* goBack(), from the back button or window.goBack
GoBack ==
  /\ navigationHistory' = goBack(navigationHistory, developerModeEnabled)
  /\ UNCHANGED <<developerModeEnabled, settingsModalOpen>>
  /\ NavFrame

NextNav ==
  \/ \E t \in ItemPages : \E d \in NavData : ShowItemPage(t, d)
  \/ \E t \in ListPages : ShowListPage(t)
  \/ ShowSearchTab
  \/ ShowCollectionTab
  \/ ShowProfileTab
  \/ ShowDeveloperTab
  \/ OpenSettings
  \/ CloseSettings
  \/ ToggleDeveloperMode
  \/ GoBack

SpecNav == Init /\ [][NextNav]_vars

\* C30: the navigation history is never empty, and a goBack from a history
\* of n >= 2 entries leaves n - 1 entries, the last of them the entry that
\* was second to last.
C30_HistoryNeverEmpty ==
  /\ Len(navigationHistory) >= 1
  /\ [][/\ Len(navigationHistory') >= 1
        /\ (GoBack /\ Len(navigationHistory) >= 2) =>
             /\ Len(navigationHistory') = Len(navigationHistory) - 1
             /\ Last(navigationHistory') =
                  navigationHistory[Len(navigationHistory) - 1]]_vars

---------------------------------------------------------------------------
(* Catalog indexes under edits of the data files and reloads               *)

\* an edit of one of the data files between two reloads
EditDataFile(f, list) ==
  /\ dataFiles[f] # File(list)
  /\ dataFiles' = [dataFiles EXCEPT ![f] = File(list)]
  /\ UNCHANGED <<resident, index>>
  /\ UNCHANGED <<serverVars, matchVars, clientVars, passed, loopVars,
                 navVars>>

NextIndex ==
  \/ \E f \in DOMAIN FileVersions : \E list \in FileVersions[f] :
       EditDataFile(f, list)
  \/ CacheClear

SpecIndex == Init /\ [][NextIndex]_vars

\* the map holds, under each truthy key of the list, the list's entry of
\* that key, and nothing else
HoldsExactly(map, keys, list) ==
  /\ DOMAIN map = {Get(keys[i]) : i \in {j \in DOMAIN list : Truthy(keys[j])}}
  /\ \A k \in DOMAIN map :
       \E i \in DOMAIN list : keys[i] = Some(k) /\ map[k] = list[i]

\* the map groups the links of the list by entity, in the list's order
GroupsExactly(map, list) ==
  /\ DOMAIN map = {EntityKey(list[i]) : i \in DOMAIN list}
  /\ \A k \in DOMAIN map :
       map[k] = SelectSeq(list, LAMBDA p : EntityKey(p) = k)

\* C26: after every reload artistsMap, songsMap and albumsMap hold exactly
\* the entries of the current artists, songs and albums lists, and
\* platformsByEntity groups exactly the current platform links.
C26_IndexesAgree ==
  /\ HoldsExactly(index.artistsMap,
                  [i \in DOMAIN resident.artists |-> resident.artists[i].id],
                  resident.artists)
  /\ HoldsExactly(index.songsMap,
                  [i \in DOMAIN resident.songs |->
                     Some(resident.songs[i].song_id)],
                  resident.songs)
  /\ HoldsExactly(index.albumsMap,
                  [i \in DOMAIN resident.albums |-> resident.albums[i].id],
                  resident.albums)
  /\ GroupsExactly(index.platformsByEntity, resident.platforms)

====
